---- MODULE Spec2Model ----
(***************************************************************************)
(* Eagle Tunnel: the split DNS resolver of the ET protocol                 *)
(* (server/protocols/et/cmd/dns.go), the key=value configuration parser    *)
(* and Init of package eagletunnel (src/eagletunnel/controler.go), and     *)
(* the main goroutine of the command (package main).                       *)
(*                                                                         *)
(* Spec and SpecLive run the resolver, SpecCfg the parser's round trip,    *)
(* SpecInit eagletunnel.Init, SpecMain the process from main to its exit.  *)
(*                                                                         *)
(* Text that the code splits, trims or joins is a sequence of              *)
(* one-character strings; IP texts, which the code only compares and       *)
(* hands to net.ParseIP, are TLA+ strings.                                 *)
(***************************************************************************)
EXTENDS Integers, Sequences, FiniteSets, TLC

\* ------------------------------------------------------------------ bounds

\* Length of the configuration text the parser is run on.
MaxTextLen == 7

\* ----------------------------------------------------------------- strings

WhiteSpace == {" ", "\t", "\n", "\r"}

\* strings.TrimSpace
RECURSIVE TrimLeft(_)
TrimLeft(s) ==
    IF s # <<>> /\ Head(s) \in WhiteSpace THEN TrimLeft(Tail(s)) ELSE s

RECURSIVE TrimRight(_)
TrimRight(s) ==
    IF s # <<>> /\ s[Len(s)] \in WhiteSpace
    THEN TrimRight(SubSeq(s, 1, Len(s) - 1))
    ELSE s

TrimSpace(s) == TrimRight(TrimLeft(s))

\* strings.Split(s, sep) for a one-character separator: the fields between
\* the separators, <<s>> when there is none (also for the empty string).
RECURSIVE SplitFrom(_, _, _)
SplitFrom(s, sep, cur) ==
    IF s = <<>> THEN <<cur>>
    ELSE IF Head(s) = sep THEN <<cur>> \o SplitFrom(Tail(s), sep, <<>>)
    ELSE SplitFrom(Tail(s), sep, Append(cur, Head(s)))

Split(s, sep) == SplitFrom(s, sep, <<>>)

\* ------------------------------------------------------------- DNS: values

\* The goroutines that call into the one DNS value: each runs Send or Handle
\* to its return, any number of times. Two are what it takes for a creator
\* and a waiter on one node, and for a retry beside a caller that still holds
\* the failed node.
Procs == {1, 2}

\* comm.ProxyStatus values; ProxyINVALID stands for any other value.
ProxySMART == "SMART"
ProxyENABLE == "ENABLE"
ProxyINVALID == "INVALID"

\* comm.DomainType values
DirectDomain == "DIRECT"
ProxyDomain == "PROXY"
UncertainDomain == "UNCERTAIN"
DomainTypes == {DirectDomain, ProxyDomain, UncertainDomain}

\* error values; NilErr is Go's nil error
NilErr == "nil"
ErrADHostsFound == "ad hosts found"
ErrInvalidProxyStatus == "invalid proxy-status"
ErrInvalidReply == "invalid reply"
ErrTooShort == "ETDNS.Handle -> req is too short"
ErrResolver == "resolver error"
ErrQuery == "query error"
ErrNode == "cache node destroyed"
ErrWrite == "tunnel write error"

\* domains: "a" has no hosts entry, "h" is mapped by the hosts overlay, "x"
\* is ad-blocked by it
DomA == <<"a">>
DomH == <<"h">>
DomX == <<"x">>
Domains == {DomA, DomH, DomX}

\* comm.HostsCache, loaded at start and read-only afterwards
HostsCache == [d \in {DomH, DomX} |-> IF d = DomH THEN "9.9.9.9" ELSE "::"]

\* the texts net.ParseIP accepts, among the texts of this model
IPLiterals == {"1.1.1.1", "1.1.1.2", "2.2.2.2", "2.2.2.3", "9.9.9.9", "::"}

NoIP == "<nil>"

\* net.ParseIP: the parsed address, or nil
ParseIP(s) == IF s \in IPLiterals THEN s ELSE NoIP

\* what d.DNSResolver may return: (ip, err)
ResolverOutcomes ==
    { [ip |-> "1.1.1.1", err |-> NilErr],
      [ip |-> "1.1.1.2", err |-> NilErr],
      [ip |-> "", err |-> ErrResolver] }

\* what sendQuery may return: (reply, err)
QueryOutcomes ==
    { [ip |-> "2.2.2.2", err |-> NilErr],
      [ip |-> "not-an-ip", err |-> NilErr],
      [ip |-> "", err |-> ErrQuery] }

\* what the LOCATION sub-sender may leave in e.Location
Locations == {"", "CN", "US"}

\* checkProxyByLocation: whether the location is one that must be proxied
checkProxyByLocation(location) == location = "US"

\* requests of the inbound DNS sub-command, as received on the tunnel
HandleReqs ==
    { <<"D">>,
      <<"D", " ", "a">>,
      <<"D", " ", "h">>,
      <<"D", " ", "a", " ", "z">> }

\* the requests Send is called with: (domain, domain type)
SendArgs ==
    ({DomA} \X DomainTypes) \cup {<<DomH, UncertainDomain>>, <<DomX, DirectDomain>>}

\* comm.NetArg, as far as the resolver uses it
NetArg(domain, type) ==
    [Domain |-> domain, IP |-> "", DomainType |-> type, Location |-> ""]

NoArg == NetArg(<<>>, UncertainDomain)

\* ---------------------------------------------------------- DNS: the state

VARIABLES
    proxyStatus,     \* comm.DefaultArg.ProxyStatus
    dnsLocalCache,   \* DNS.dnsLocalCache: NilCache, or domain -> node (NoNode: none)
    dnsRemoteCache,  \* DNS.dnsRemoteCache
    nodes,           \* the cache nodes, by identity; FreeNode where there is none
    pc,              \* where each goroutine is
    op,              \* the entry point it is in: "Send", "Handle", "none"
    e,               \* the request's NetArg
    ne,              \* the second NetArg of resolvDNSByLocation
    nodeL,           \* the node it got from the local cache
    nodeR,           \* the node it got from the remote cache
    err,             \* the error the entry point returns
    trace,           \* what the call has done so far, in order
    tunnel           \* what Handle wrote to its tunnel

VARIABLES
    cfgPc,           \* the step of the configuration round trip
    cfgLines,        \* the lines handed to getKeyValues
    cfgKeyValues,    \* its map
    cfgKeys,         \* its key sequence
    cfgText,         \* the text exportKeyValues made of them
    cfgKeyValues2,   \* the map parsed back from cfgText
    cfgKeys2         \* the key sequence parsed back from cfgText

VARIABLES
    initPc,          \* the step eagletunnel.Init is at
    initInput,       \* what the files hold: the configuration it is given
    allConfLines,    \* Init's allConfLines
    initKeyValues,   \* Init's local ConfigKeyValues
    initErr,         \* Init's err
    initRet,         \* the error Init returned
    ConfigKeyValues, \* the package variables of eagletunnel
    EnableUserCheck,
    EncryptKey,
    ProxyStatus

VARIABLES
    mainPc,          \* where the main goroutine is
    mainArgs,        \* os.Args[1:]
    mainErr,         \* err of core / check
    service,         \* the service: "nil", "created", "listening", "closed"
    startPc,         \* where the goroutine of startService is
    startErr,        \* whether service.Start returned an error
    notified,        \* signal.Notify(c, os.Interrupt) was called
    sigChan,         \* the signals buffered in c
    interrupted,     \* an interrupt was sent to the process
    exitCode         \* the exit status; -1 while the process runs

dnsVars ==
    << proxyStatus, dnsLocalCache, dnsRemoteCache, nodes, pc, op, e, ne,
       nodeL, nodeR, err, trace, tunnel >>

cfgVars ==
    << cfgPc, cfgLines, cfgKeyValues, cfgKeys, cfgText, cfgKeyValues2, cfgKeys2 >>

initVars ==
    << initPc, initInput, allConfLines, initKeyValues, initErr, initRet,
       ConfigKeyValues, EnableUserCheck, EncryptKey, ProxyStatus >>

mainVars ==
    << mainPc, mainArgs, mainErr, service, startPc, startErr, notified, sigChan,
       interrupted, exitCode >>

\* what the resolver leaves alone
otherVars == << cfgVars, initVars, mainVars >>

vars == << dnsVars, cfgVars, initVars, mainVars >>

\* a nil *cache.TextCache
NilCache == <<>>
\* a nil *cache.CacheNode
NoNode == <<>>

\* ------------------------------------------------- the text cache library

\* A node's identity: the cache and the domain it was created for, and a
\* number that tells it from the destroyed nodes of that cache and domain
\* which other goroutines still hold (each holds at most one per cache).
NodeIds == {"local", "remote"} \X Domains \X (1..Cardinality(Procs))

\* no node: an identity nothing refers to
FreeNode == [state |-> "FREE", value |-> "", calls |-> 0, ops |-> 0, results |-> {}]

FreeIds(path, domain) ==
    {i \in NodeIds : i[1] = path /\ i[2] = domain /\ nodes[i].state = "FREE"}

\* the identity of the next node allocated for the domain
NewNode(path, domain) ==
    CHOOSE i \in FreeIds(path, domain) : \A j \in FreeIds(path, domain) : i[3] <= j[3]

\* the nodes a cache holds
CacheNodes(cache) ==
    IF cache = NilCache THEN {} ELSE {cache[d] : d \in DOMAIN cache} \ {NoNode}

\* the nodes left when goroutine p drops its references: a node that
\* neither a cache nor another goroutine refers to is collected
Collect(p) ==
    LET used == CacheNodes(dnsLocalCache) \cup CacheNodes(dnsRemoteCache)
                \cup {nodeL[q] : q \in Procs \ {p}}
                \cup {nodeR[q] : q \in Procs \ {p}}
    IN  [i \in NodeIds |-> IF i \in used THEN nodes[i] ELSE FreeNode]

\* cache.CreateTextCache: an empty cache
CreateTextCache == [d \in Domains |-> NoNode]

\* TextCache.Get: the node of the domain and loaded = TRUE, or a new pending
\* node, stored under the domain, and loaded = FALSE; one atomic step.
CacheGet(cache, path, domain) ==
    IF cache[domain] # NoNode
    THEN [node |-> cache[domain], loaded |-> TRUE, cache |-> cache, nodes |-> nodes]
    ELSE [node |-> NewNode(path, domain), loaded |-> FALSE,
          cache |-> [cache EXCEPT ![domain] = NewNode(path, domain)],
          nodes |-> [nodes EXCEPT ![NewNode(path, domain)] =
                       [state |-> "PENDING", value |-> "", calls |-> 0,
                        ops |-> 0, results |-> {}]]]

\* CacheNode.Update: publish the text and wake the waiters
NodeUpdate(ns, id, ip) ==
    [ns EXCEPT ![id].state = "READY", ![id].value = ip]

\* CacheNode.Destroy: fail the node, wake the waiters with an error
NodeDestroy(ns, id) == [ns EXCEPT ![id].state = "FAILED"]

\* ... and take the node out of the cache that owns it
CacheEvict(cache, id) ==
    IF cache = NilCache THEN cache
    ELSE [d \in DOMAIN cache |-> IF cache[d] = id THEN NoNode ELSE cache[d]]

\* CacheNode.Wait, once the node is no longer pending: (text, err)
NodeWait(n) ==
    IF n.state = "READY" THEN [ip |-> n.value, err |-> NilErr]
    ELSE [ip |-> "", err |-> ErrNode]

\* bookkeeping: the resolver was invoked for the node / Update or Destroy was
\* called on it / a caller returned from the node with this outcome
NoteCall(ns, id) == [ns EXCEPT ![id].calls = @ + 1]
NoteOp(ns, id) == [ns EXCEPT ![id].ops = @ + 1]
Outcome(ip, er) == IF er = NilErr THEN ip ELSE "<error>"
NoteResult(ns, id, ip, er) == [ns EXCEPT ![id].results = @ \cup {Outcome(ip, er)}]

\* the creator's node.Destroy() or node.Update(ip), as the node operation says
ApplyNodeOp(ns, id, nodeOp, ip) ==
    IF nodeOp = "Destroy" THEN NoteOp(NodeDestroy(ns, id), id)
    ELSE IF nodeOp = "Update" THEN NoteOp(NodeUpdate(ns, id, ip), id)
    ELSE ns

\* --------------------------------------------------------------- DNS: Init

DnsInit ==
    /\ proxyStatus \in {ProxySMART, ProxyENABLE, ProxyINVALID}
    /\ dnsLocalCache = NilCache
    /\ dnsRemoteCache = NilCache
    /\ nodes = [i \in NodeIds |-> FreeNode]
    /\ pc = [p \in Procs |-> "idle"]
    /\ op = [p \in Procs |-> "none"]
    /\ e = [p \in Procs |-> NoArg]
    /\ ne = [p \in Procs |-> NoArg]
    /\ nodeL = [p \in Procs |-> NoNode]
    /\ nodeR = [p \in Procs |-> NoNode]
    /\ err = [p \in Procs |-> NilErr]
    /\ trace = [p \in Procs |-> <<>>]
    /\ tunnel = [p \in Procs |-> <<>>]

\* eagletunnel before Init is called: the zero values of its package variables
InitIdle ==
    /\ initPc = "off"
    /\ initInput = <<>>
    /\ allConfLines = <<>>
    /\ initKeyValues = <<>>
    /\ initErr = NilErr
    /\ initRet = NilErr
    /\ ConfigKeyValues = <<>>
    /\ EnableUserCheck = FALSE
    /\ EncryptKey = 0
    /\ ProxyStatus = ""

MainIdle ==
    /\ mainPc = "off"
    /\ mainArgs = <<>>
    /\ mainErr = NilErr
    /\ service = "nil"
    /\ startPc = "none"
    /\ startErr = FALSE
    /\ notified = FALSE
    /\ sigChan = 0
    /\ interrupted = FALSE
    /\ exitCode = -1

CfgIdle ==
    /\ cfgPc = "off"
    /\ cfgLines = <<>>
    /\ cfgKeyValues = <<>>
    /\ cfgKeys = <<>>
    /\ cfgText = <<>>
    /\ cfgKeyValues2 = <<>>
    /\ cfgKeys2 = <<>>

\* ------------------------------------------------------- DNS: the resolver

\* (a lookup that never finds an entry)
look4HostsMiss(domain) == [ip |-> "", ok |-> FALSE, err |-> NilErr]

\* (a lookup without the check for "::")
look4HostsNoAd(domain) ==
    IF domain \notin DOMAIN HostsCache
    THEN [ip |-> "", ok |-> FALSE, err |-> NilErr]
    ELSE [ip |-> HostsCache[domain], ok |-> TRUE, err |-> NilErr]

\* DNS.look4Hosts: (ip, ok, err)
look4Hosts(domain) ==
    IF domain \notin DOMAIN HostsCache
    THEN [ip |-> "", ok |-> FALSE, err |-> NilErr]
    ELSE [ip |-> HostsCache[domain], ok |-> TRUE,
          err |-> IF HostsCache[domain] = "::" THEN ErrADHostsFound ELSE NilErr]

\* (the two explicit cases swapped)
smartSendSwapped(type) ==
    CASE type = DirectDomain -> "resolvDNSByProxy"
      [] type = ProxyDomain -> "resolvDNSByLocal"
      [] OTHER -> "resolvDNSByLocation"

\* DNS.smartSend: the resolution the domain type selects
smartSend(type) ==
    CASE type = DirectDomain -> "resolvDNSByLocal"
      [] type = ProxyDomain -> "resolvDNSByProxy"
      [] OTHER -> "resolvDNSByLocation"

\* (a switch whose default case is the forced proxy mode)
SendSwitchDefaultProxy(status, type) ==
    CASE status = ProxySMART -> smartSend(type)
      [] OTHER -> "resolvDNSByProxy"

\* the switch of DNS.Send on the proxy status
SendSwitch(status, type) ==
    CASE status = ProxySMART -> smartSend(type)
      [] status = ProxyENABLE -> "resolvDNSByProxy"
      [] OTHER -> "invalid"

\* whether the goroutine is inside resolvDNSByLocation
InLocation(p) ==
    /\ op[p] = "Send"
    /\ SendSwitch(proxyStatus, e[p].DomainType) = "resolvDNSByLocation"

\* the first step of the resolution that was selected
FirstStep(route) ==
    IF route = "resolvDNSByProxy" THEN "getCacheNodeOfRemote"
    ELSE "getCacheNodeOfLocal"

\* (a caller that resolves whether or not the node was loaded)
resolvDNSByLocalNextNoWait(loaded) == "DNSResolver"

\* (a caller that asks the relay whether or not the node was loaded)
resolvDNSByProxyNextNoWait(loaded) == "sendQuery"

\* DNS.resolvDNSByLocal / resolvDNSByProxy: wait on a loaded node, resolve
\* for a new one
resolvDNSByLocalNext(loaded) == IF loaded THEN "waitLocal" ELSE "DNSResolver"
resolvDNSByProxyNext(loaded) == IF loaded THEN "waitRemote" ELSE "sendQuery"

\* (a creator that publishes whatever it got)
resolvDNSByLocalNodeOpKeep(er) == "Update"

\* (a creator that returns its error and leaves its node as it is)
resolvDNSByProxyNodeOpForget(er) == IF er # NilErr THEN "None" ELSE "Update"

\* ... and what the creator does with its node once it has resolved
resolvDNSByLocalNodeOp(er) == IF er # NilErr THEN "Destroy" ELSE "Update"
resolvDNSByProxyNodeOp(er) == IF er # NilErr THEN "Destroy" ELSE "Update"

\* DNS._resolvDNSByLocal: (e.IP, err) from what the resolver returned
_resolvDNSByLocal(out) == [ip |-> out.ip, err |-> out.err]

\* (a creator that takes the reply as it is)
_resolvDNSByProxyUnchecked(out) == [ip |-> out.ip, err |-> out.err]

\* DNS._resolvDNSByProxy: (e.IP, err) from what sendQuery returned
_resolvDNSByProxy(out) ==
    [ip |-> out.ip,
     err |-> IF ParseIP(out.ip) = NoIP THEN ErrInvalidReply ELSE NilErr]

\* DNS.resolvDNSByLocation, when the location needs no proxy: what it returns
\* after a local resolution that returned localErr
resolvDNSByLocationDirect(localErr) == NilErr

\* (the copy of ne.IP forgotten)
resolvDNSByLocationIPKeep(eIP, neIP) == eIP

\* DNS.resolvDNSByLocation after resolvDNSByProxy(ne): the IP left in e,
\* given e.IP and ne.IP
resolvDNSByLocationIP(eIP, neIP) == neIP

\* (the error of resolvDNSByLocal not checked)
HandleAfterResolveAlwaysWrite(er) == "WriteLeftStr"

\* DNS.Handle after resolvDNSByLocal: return its error, or write the IP
HandleAfterResolve(er) == IF er # NilErr THEN "done" ELSE "WriteLeftStr"

\* (resolvDNSByLocation returning the error of resolvDNSByLocal at once)
AfterLocalStopOnError(p, er) ==
    IF op[p] = "Handle" THEN HandleAfterResolve(er)
    ELSE IF InLocation(p) /\ er = NilErr THEN "LOCATION" ELSE "done"

\* where the caller of resolvDNSByLocal goes on, given what it returned
AfterLocal(p, er) ==
    IF op[p] = "Handle" THEN HandleAfterResolve(er)
    ELSE IF InLocation(p) THEN "LOCATION" ELSE "done"

\* Send: look4Hosts, then the switch on the proxy status
Send(p) ==
    /\ pc[p] = "idle"
    /\ \E arg \in SendArgs :
         LET domain == arg[1]
             type == arg[2]
             h == look4Hosts(domain)
             route == SendSwitch(proxyStatus, type)
         IN  /\ op' = [op EXCEPT ![p] = "Send"]
             /\ IF h.err # NilErr
                THEN /\ e' = [e EXCEPT ![p] = NetArg(domain, type)]
                     /\ err' = [err EXCEPT ![p] = h.err]
                     /\ trace' = [trace EXCEPT ![p] = <<"look4Hosts">>]
                     /\ pc' = [pc EXCEPT ![p] = "done"]
                ELSE IF h.ok
                THEN /\ e' = [e EXCEPT ![p] = [NetArg(domain, type) EXCEPT !.IP = h.ip]]
                     /\ err' = [err EXCEPT ![p] = NilErr]
                     /\ trace' = [trace EXCEPT ![p] = <<"look4Hosts", "setIP">>]
                     /\ pc' = [pc EXCEPT ![p] = "done"]
                ELSE /\ e' = [e EXCEPT ![p] = NetArg(domain, type)]
                     /\ trace' = [trace EXCEPT ![p] = <<"look4Hosts", "switch">>]
                     /\ IF route = "invalid"
                        THEN /\ err' = [err EXCEPT ![p] = ErrInvalidProxyStatus]
                             /\ pc' = [pc EXCEPT ![p] = "done"]
                        ELSE /\ err' = [err EXCEPT ![p] = NilErr]
                             /\ pc' = [pc EXCEPT ![p] = FirstStep(route)]
    /\ UNCHANGED << proxyStatus, dnsLocalCache, dnsRemoteCache, nodes, ne,
                    nodeL, nodeR, tunnel, otherVars >>

\* Handle: split the request, then resolvDNSByLocal
Handle(p) ==
    /\ pc[p] = "idle"
    /\ \E req \in HandleReqs :
         LET reqs == Split(req, " ")
         IN  /\ op' = [op EXCEPT ![p] = "Handle"]
             /\ trace' = [trace EXCEPT ![p] = <<"Split">>]
             /\ IF Len(reqs) < 2
                THEN /\ err' = [err EXCEPT ![p] = ErrTooShort]
                     /\ e' = [e EXCEPT ![p] = NoArg]
                     /\ pc' = [pc EXCEPT ![p] = "done"]
                ELSE /\ err' = [err EXCEPT ![p] = NilErr]
                     /\ e' = [e EXCEPT ![p] = [NoArg EXCEPT !.Domain = reqs[2]]]
                     /\ pc' = [pc EXCEPT ![p] = "getCacheNodeOfLocal"]
    /\ UNCHANGED << proxyStatus, dnsLocalCache, dnsRemoteCache, nodes, ne,
                    nodeL, nodeR, tunnel, otherVars >>

\* (the locked section without the second check)
getCacheNodeOfLocalLockedNoCheck(cache) == CreateTextCache

\* getCacheNodeOfLocal / getCacheNodeOfRemote between d.Lock() and d.Unlock():
\* the cache field after it, given the cache field before
getCacheNodeOfLocalLocked(cache) ==
    IF cache = NilCache THEN CreateTextCache ELSE cache
getCacheNodeOfRemoteLocked(cache) ==
    IF cache = NilCache THEN CreateTextCache ELSE cache

\* getCacheNodeOfLocal, the check outside the lock: an unsynchronised read of
\* d.dnsLocalCache, which may still see nil after another goroutine set it
getCacheNodeOfLocal(p) ==
    /\ pc[p] = "getCacheNodeOfLocal"
    /\ \E seenNil \in {dnsLocalCache = NilCache, TRUE} :
         pc' = [pc EXCEPT ![p] = IF seenNil THEN "lockLocal" ELSE "getLocal"]
    /\ UNCHANGED << proxyStatus, dnsLocalCache, dnsRemoteCache, nodes, op, e, ne,
                    nodeL, nodeR, err, trace, tunnel, otherVars >>

\* getCacheNodeOfLocal, d.Lock() to d.Unlock(): the check again, and the
\* creation; the mutex makes it one step
lockLocal(p) ==
    /\ pc[p] = "lockLocal"
    /\ dnsLocalCache' = getCacheNodeOfLocalLocked(dnsLocalCache)
    /\ pc' = [pc EXCEPT ![p] = "getLocal"]
    /\ UNCHANGED << proxyStatus, dnsRemoteCache, nodes, op, e, ne,
                    nodeL, nodeR, err, trace, tunnel, otherVars >>

\* resolvDNSByLocal: d.dnsLocalCache.Get(domain), and the branch on loaded;
\* the creator goes on to call d.DNSResolver
getLocal(p) ==
    /\ pc[p] = "getLocal"
    /\ LET g == CacheGet(dnsLocalCache, "local", e[p].Domain)
           next == resolvDNSByLocalNext(g.loaded)
       IN  /\ dnsLocalCache' = g.cache
           /\ nodes' = IF next = "DNSResolver" THEN NoteCall(g.nodes, g.node)
                       ELSE g.nodes
           /\ nodeL' = [nodeL EXCEPT ![p] = g.node]
           /\ trace' = [trace EXCEPT ![p] = Append(@, next)]
           /\ pc' = [pc EXCEPT ![p] = next]
    /\ UNCHANGED << proxyStatus, dnsRemoteCache, op, e, ne, nodeR, err, tunnel,
                    otherVars >>

\* _resolvDNSByLocal returns to the creator, which destroys or updates its node
DNSResolver(p) ==
    /\ pc[p] = "DNSResolver"
    /\ \E out \in ResolverOutcomes :
         LET r == _resolvDNSByLocal(out)
             nodeOp == resolvDNSByLocalNodeOp(r.err)
             done == ApplyNodeOp(nodes, nodeL[p], nodeOp, r.ip)
         IN  /\ e' = [e EXCEPT ![p].IP = r.ip]
             /\ err' = [err EXCEPT ![p] = r.err]
             /\ nodes' = NoteResult(done, nodeL[p], r.ip, r.err)
             /\ dnsLocalCache' = IF nodeOp = "Destroy"
                                 THEN CacheEvict(dnsLocalCache, nodeL[p])
                                 ELSE dnsLocalCache
             /\ trace' = [trace EXCEPT ![p] = Append(@, nodeOp)]
             /\ pc' = [pc EXCEPT ![p] = AfterLocal(p, r.err)]
    /\ UNCHANGED << proxyStatus, dnsRemoteCache, op, ne, nodeL, nodeR, tunnel,
                    otherVars >>

\* resolvDNSByLocal: node.Wait() returns to a caller that found the node
waitLocal(p) ==
    /\ pc[p] = "waitLocal"
    /\ nodes[nodeL[p]].state # "PENDING"
    /\ LET r == NodeWait(nodes[nodeL[p]])
       IN  /\ e' = [e EXCEPT ![p].IP = r.ip]
           /\ err' = [err EXCEPT ![p] = r.err]
           /\ nodes' = NoteResult(nodes, nodeL[p], r.ip, r.err)
           /\ pc' = [pc EXCEPT ![p] = AfterLocal(p, r.err)]
    /\ UNCHANGED << proxyStatus, dnsLocalCache, dnsRemoteCache, op, ne, nodeL,
                    nodeR, trace, tunnel, otherVars >>

\* Handle: t.WriteLeftStr(e.IP), which may fail
WriteLeftStr(p) ==
    /\ pc[p] = "WriteLeftStr"
    /\ \E ok \in BOOLEAN :
         /\ tunnel' = [tunnel EXCEPT ![p] = IF ok THEN Append(@, e[p].IP) ELSE @]
         /\ err' = [err EXCEPT ![p] = IF ok THEN NilErr ELSE ErrWrite]
    /\ trace' = [trace EXCEPT ![p] = Append(@, "WriteLeftStr")]
    /\ pc' = [pc EXCEPT ![p] = "done"]
    /\ UNCHANGED << proxyStatus, dnsLocalCache, dnsRemoteCache, nodes, op, e, ne,
                    nodeL, nodeR, otherVars >>

\* resolvDNSByLocation after resolvDNSByLocal: the LOCATION query, then
\* checkProxyByLocation; return nil, or go on to resolvDNSByProxy(ne)
LOCATION(p) ==
    /\ pc[p] = "LOCATION"
    /\ \E location \in Locations :
         /\ e' = [e EXCEPT ![p].Location = location]
         /\ IF ~checkProxyByLocation(location)
            THEN /\ err' = [err EXCEPT ![p] = resolvDNSByLocationDirect(err[p])]
                 /\ ne' = ne
                 /\ pc' = [pc EXCEPT ![p] = "done"]
            ELSE /\ err' = err
                 /\ ne' = [ne EXCEPT ![p] = NetArg(e[p].Domain, UncertainDomain)]
                 /\ pc' = [pc EXCEPT ![p] = "getCacheNodeOfRemote"]
    /\ trace' = [trace EXCEPT ![p] = @ \o <<"LOCATION", "checkProxyByLocation">>]
    /\ UNCHANGED << proxyStatus, dnsLocalCache, dnsRemoteCache, nodes, op,
                    nodeL, nodeR, tunnel, otherVars >>

\* the NetArg resolvDNSByProxy was called with: ne inside resolvDNSByLocation
RemoteDomain(p) == IF InLocation(p) THEN ne[p].Domain ELSE e[p].Domain

\* resolvDNSByProxy has set the IP of its NetArg; resolvDNSByLocation copies
\* ne.IP to e.IP
SetRemoteIP(p, ip) ==
    /\ e' = [e EXCEPT ![p].IP =
                IF InLocation(p) THEN resolvDNSByLocationIP(@, ip) ELSE ip]
    /\ ne' = IF InLocation(p) THEN [ne EXCEPT ![p].IP = ip] ELSE ne

\* getCacheNodeOfRemote, the check outside the lock
getCacheNodeOfRemote(p) ==
    /\ pc[p] = "getCacheNodeOfRemote"
    /\ \E seenNil \in {dnsRemoteCache = NilCache, TRUE} :
         pc' = [pc EXCEPT ![p] = IF seenNil THEN "lockRemote" ELSE "getRemote"]
    /\ UNCHANGED << proxyStatus, dnsLocalCache, dnsRemoteCache, nodes, op, e, ne,
                    nodeL, nodeR, err, trace, tunnel, otherVars >>

\* getCacheNodeOfRemote, d.Lock() to d.Unlock()
lockRemote(p) ==
    /\ pc[p] = "lockRemote"
    /\ dnsRemoteCache' = getCacheNodeOfRemoteLocked(dnsRemoteCache)
    /\ pc' = [pc EXCEPT ![p] = "getRemote"]
    /\ UNCHANGED << proxyStatus, dnsLocalCache, nodes, op, e, ne,
                    nodeL, nodeR, err, trace, tunnel, otherVars >>

\* (one cache for both paths: the local cache, once there is one)
getCacheNodeOfRemoteShared(local, remote) ==
    IF local = NilCache THEN remote ELSE local

\* getCacheNodeOfRemote: the cache its Get runs on, of the DNS value's two
getCacheNodeOfRemoteGet(local, remote) == remote

\* resolvDNSByProxy: d.dnsRemoteCache.Get(domain), and the branch on loaded;
\* the creator goes on to call sendQuery
getRemote(p) ==
    /\ pc[p] = "getRemote"
    /\ LET g == CacheGet(getCacheNodeOfRemoteGet(dnsLocalCache, dnsRemoteCache),
                          "remote", RemoteDomain(p))
           next == resolvDNSByProxyNext(g.loaded)
       IN  /\ dnsRemoteCache' = g.cache
           /\ nodes' = IF next = "sendQuery" THEN NoteCall(g.nodes, g.node)
                       ELSE g.nodes
           /\ nodeR' = [nodeR EXCEPT ![p] = g.node]
           /\ trace' = [trace EXCEPT ![p] = Append(@, next)]
           /\ pc' = [pc EXCEPT ![p] = next]
    /\ UNCHANGED << proxyStatus, dnsLocalCache, op, e, ne, nodeL, err, tunnel,
                    otherVars >>

\* _resolvDNSByProxy returns to the creator, which destroys or updates its node
sendQuery(p) ==
    /\ pc[p] = "sendQuery"
    /\ \E out \in QueryOutcomes :
         LET r == _resolvDNSByProxy(out)
             nodeOp == resolvDNSByProxyNodeOp(r.err)
             done == ApplyNodeOp(nodes, nodeR[p], nodeOp, r.ip)
         IN  /\ SetRemoteIP(p, r.ip)
             /\ err' = [err EXCEPT ![p] = r.err]
             /\ nodes' = NoteResult(done, nodeR[p], r.ip, r.err)
             /\ dnsRemoteCache' = IF nodeOp = "Destroy"
                                  THEN CacheEvict(dnsRemoteCache, nodeR[p])
                                  ELSE dnsRemoteCache
             /\ trace' = [trace EXCEPT ![p] = Append(@, nodeOp)]
             /\ pc' = [pc EXCEPT ![p] = "done"]
    /\ UNCHANGED << proxyStatus, dnsLocalCache, op, nodeL, nodeR, tunnel, otherVars >>

\* resolvDNSByProxy: node.Wait() returns to a caller that found the node
waitRemote(p) ==
    /\ pc[p] = "waitRemote"
    /\ nodes[nodeR[p]].state # "PENDING"
    /\ LET r == NodeWait(nodes[nodeR[p]])
       IN  /\ SetRemoteIP(p, r.ip)
           /\ err' = [err EXCEPT ![p] = r.err]
           /\ nodes' = NoteResult(nodes, nodeR[p], r.ip, r.err)
           /\ pc' = [pc EXCEPT ![p] = "done"]
    /\ UNCHANGED << proxyStatus, dnsLocalCache, dnsRemoteCache, op, nodeL, nodeR,
                    trace, tunnel, otherVars >>

\* the entry point returns; the goroutine is free for the next request
Return(p) ==
    /\ pc[p] = "done"
    /\ pc' = [pc EXCEPT ![p] = "idle"]
    /\ op' = [op EXCEPT ![p] = "none"]
    /\ e' = [e EXCEPT ![p] = NoArg]
    /\ ne' = [ne EXCEPT ![p] = NoArg]
    /\ nodeL' = [nodeL EXCEPT ![p] = NoNode]
    /\ nodeR' = [nodeR EXCEPT ![p] = NoNode]
    /\ err' = [err EXCEPT ![p] = NilErr]
    /\ trace' = [trace EXCEPT ![p] = <<>>]
    /\ tunnel' = [tunnel EXCEPT ![p] = <<>>]
    /\ nodes' = Collect(p)
    /\ UNCHANGED << proxyStatus, dnsLocalCache, dnsRemoteCache, otherVars >>

Init == DnsInit /\ CfgIdle /\ InitIdle /\ MainIdle

Next ==
    \E p \in Procs :
        \/ Send(p)
        \/ Handle(p)
        \/ getCacheNodeOfLocal(p)
        \/ lockLocal(p)
        \/ getLocal(p)
        \/ DNSResolver(p)
        \/ waitLocal(p)
        \/ WriteLeftStr(p)
        \/ LOCATION(p)
        \/ getCacheNodeOfRemote(p)
        \/ lockRemote(p)
        \/ getRemote(p)
        \/ sendQuery(p)
        \/ waitRemote(p)
        \/ Return(p)

Spec == Init /\ [][Next]_vars

\* The resolver in forced proxy mode under fair scheduling: Send takes the
\* remote path and Handle the local one. A goroutine whose Wait can return is
\* scheduled again: the runtime runs every runnable goroutine.
InitLive == Init /\ proxyStatus = ProxyENABLE

NextLive ==
    \E p \in Procs :
        \/ Send(p)
        \/ Handle(p)
        \/ getCacheNodeOfLocal(p)
        \/ lockLocal(p)
        \/ getLocal(p)
        \/ DNSResolver(p)
        \/ waitLocal(p)
        \/ WriteLeftStr(p)
        \/ getCacheNodeOfRemote(p)
        \/ lockRemote(p)
        \/ getRemote(p)
        \/ sendQuery(p)
        \/ waitRemote(p)
        \/ Return(p)

Fairness == \A p \in Procs : WF_vars(waitLocal(p)) /\ WF_vars(waitRemote(p))

SpecLive == InitLive /\ [][NextLive]_vars /\ Fairness

\* ------------------------------------------------ the configuration parser

\* the value of a line split at "=": keyValue[1], then "=" and each further
\* item (Go counts from 0, a sequence from 1)
RECURSIVE JoinValue(_, _, _)
JoinValue(keyValue, i, value) ==
    IF i > Len(keyValue) THEN value
    ELSE JoinValue(keyValue, i + 1, value \o <<"=">> \o keyValue[i])

\* getKeyValues, from line i on: the map and the key sequence
RECURSIVE getKeyValuesFrom(_, _, _, _)
getKeyValuesFrom(lines, i, keyValues, keys) ==
    IF i > Len(lines) THEN [keyValues |-> keyValues, keys |-> keys]
    ELSE LET keyValue == Split(lines[i], "=")
             value == TrimSpace(JoinValue(keyValue, 3, keyValue[2]))
             key == TrimSpace(keyValue[1])
         IN  IF Len(keyValue) >= 2
             THEN getKeyValuesFrom(lines, i + 1,
                                   (key :> value) @@ keyValues,
                                   Append(keys, key))
             ELSE getKeyValuesFrom(lines, i + 1, keyValues, keys)

getKeyValues(lines) == getKeyValuesFrom(lines, 1, <<>>, <<>>)

\* (a writer that forgets the line break)
ExportLineNoBreak(keyValues, key) ==
    key \o <<" ", "=", " ">>
        \o (IF key \in DOMAIN keyValues THEN keyValues[key] ELSE <<>>)

\* the text exportKeyValues writes for one key
ExportLine(keyValues, key) ==
    key \o <<" ", "=", " ">>
        \o (IF key \in DOMAIN keyValues THEN keyValues[key] ELSE <<>>)
        \o <<"\r", "\n">>

RECURSIVE exportKeyValuesFrom(_, _, _)
exportKeyValuesFrom(keyValues, keys, i) ==
    IF i > Len(keys) THEN <<>>
    ELSE ExportLine(keyValues, keys[i]) \o exportKeyValuesFrom(keyValues, keys, i + 1)

exportKeyValues(keyValues, keys) == exportKeyValuesFrom(keyValues, keys, 1)

\* a text split back into its lines, each trimmed
TrimmedLines(text) ==
    LET ls == Split(text, "\n") IN [i \in 1..Len(ls) |-> TrimSpace(ls[i])]

\* the characters of the configuration texts the parser is run on
CfgChars == {"k", "v", "=", " ", "\n"}

CfgTexts == UNION {[1..n -> CfgChars] : n \in 0..MaxTextLen}

CfgInit ==
    /\ cfgPc = "lines"
    /\ cfgLines \in {Split(t, "\n") : t \in CfgTexts}
    /\ cfgKeyValues = <<>>
    /\ cfgKeys = <<>>
    /\ cfgText = <<>>
    /\ cfgKeyValues2 = <<>>
    /\ cfgKeys2 = <<>>

\* getKeyValues on the lines
CfgParse ==
    /\ cfgPc = "lines"
    /\ LET r == getKeyValues(cfgLines)
       IN  /\ cfgKeyValues' = r.keyValues
           /\ cfgKeys' = r.keys
    /\ cfgPc' = "parsed"
    /\ UNCHANGED << cfgLines, cfgText, cfgKeyValues2, cfgKeys2, dnsVars, initVars, mainVars >>

\* exportKeyValues on what was parsed
CfgExport ==
    /\ cfgPc = "parsed"
    /\ cfgText' = exportKeyValues(cfgKeyValues, cfgKeys)
    /\ cfgPc' = "exported"
    /\ UNCHANGED << cfgLines, cfgKeyValues, cfgKeys, cfgKeyValues2, cfgKeys2, dnsVars, initVars, mainVars >>

\* getKeyValues on the lines of the exported text
CfgReparse ==
    /\ cfgPc = "exported"
    /\ LET r == getKeyValues(TrimmedLines(cfgText))
       IN  /\ cfgKeyValues2' = r.keyValues
           /\ cfgKeys2' = r.keys
    /\ cfgPc' = "done"
    /\ UNCHANGED << cfgLines, cfgKeyValues, cfgKeys, cfgText, dnsVars, initVars, mainVars >>

DnsOff == DnsInit /\ proxyStatus = ProxyENABLE

InitCfg == DnsOff /\ CfgInit /\ InitIdle /\ MainIdle

NextCfg == CfgParse \/ CfgExport \/ CfgReparse

SpecCfg == InitCfg /\ [][NextCfg]_vars

\* C10: a configuration parsed by getKeyValues, written by exportKeyValues and
\* parsed again from the trimmed lines of that text gives the same map and
\* the same key sequence.
C10_ConfigRoundTrip ==
    cfgPc = "done" => cfgKeyValues2 = cfgKeyValues /\ cfgKeys2 = cfgKeys

\* a round trip of two lines with the same key, one value holding "="
C10_Witness ==
    /\ cfgPc = "done"
    /\ cfgLines = << <<"k", "=", "=">>, <<"k", "=">> >>
    /\ cfgKeys = << <<"k">>, <<"k">> >>

\* ------------------------------------------------------ eagletunnel.Init

\* further error values
ErrOpen == "open: no such file"
ErrUser == "invalid user text"
ErrSyntax == "strconv.ParseUint: invalid syntax"
ErrRange == "strconv.ParseUint: value out of range"

\* the keys Init looks up, each one symbol of a line
KeyUserCheck == <<"user-check">>
KeyUser == <<"user">>
KeyDataKey == <<"data-key">>
KeyProxyStatus == <<"proxy-status">>

\* EncryptKey = 0x22
DefaultEncryptKey == 34

HexDigits ==
    << "0", "1", "2", "3", "4", "5", "6", "7", "8", "9", "a", "b", "c", "d", "e", "f" >>

\* the value of a digit, -1 for any other character
DigitValue(c) ==
    IF \E i \in 1..Len(HexDigits) : HexDigits[i] = c
    THEN (CHOOSE i \in 1..Len(HexDigits) : HexDigits[i] = c) - 1
    ELSE -1

\* the number the digits from i on add to acc, -1 where a character is no
\* digit of the base
RECURSIVE ParseUintFrom(_, _, _, _)
ParseUintFrom(s, i, base, acc) ==
    IF i > Len(s) THEN acc
    ELSE IF DigitValue(s[i]) < 0 \/ DigitValue(s[i]) >= base THEN -1
    ELSE ParseUintFrom(s, i + 1, base, acc * base + DigitValue(s[i]))

\* strconv.ParseUint(s, base, bitSize): (value, err)
ParseUint(s, base, bitSize) ==
    LET v == IF s = <<>> THEN -1 ELSE ParseUintFrom(s, 1, base, 0)
    IN  IF v < 0 THEN [value |-> 0, err |-> ErrSyntax]
        ELSE IF v >= 2 ^ bitSize THEN [value |-> 2 ^ bitSize - 1, err |-> ErrRange]
        ELSE [value |-> v, err |-> NilErr]

\* (the key read as a decimal number)
InitParseDataKeyDecimal(encryptKey) == ParseUint(encryptKey, 10, 8)

\* Init: strconv.ParseUint(encryptKey, 16, 8)
InitParseDataKey(encryptKey) == ParseUint(encryptKey, 16, 8)

\* ParseEagleUser: the error it returns for a user text; a user is id:password
ParseEagleUser(text) ==
    IF Len(Split(text, ":")) < 2 THEN ErrUser ELSE NilErr

\* importUsers, from line i of users.list on: the first error of ParseEagleUser
RECURSIVE importUsersFrom(_, _)
importUsersFrom(userLines, i) ==
    IF i > Len(userLines) THEN NilErr
    ELSE IF ParseEagleUser(userLines[i]) # NilErr THEN ParseEagleUser(userLines[i])
    ELSE importUsersFrom(userLines, i + 1)

\* importUsers: the error it returns, given users.list
importUsers(usersList) ==
    IF ~usersList.readable THEN ErrOpen ELSE importUsersFrom(usersList.lines, 1)

\* Init: the switch on the value of proxy-status
InitProxyStatusSwitch(status) ==
    CASE status = <<"enable">> -> ProxyENABLE
      [] status = <<"smart">> -> ProxySMART
      [] OTHER -> ProxyENABLE

\* the files Init is run on. What a file holds is named (the key is absent,
\* or its value is of this kind) next to the text that readLines returns for
\* it; byte is the byte a data-key text stands for, -1 when it stands for none.
UserChecks ==
    { [kind |-> "none", lines |-> <<>>],
      [kind |-> "on", lines |-> << <<"user-check", "=", "on">> >>],
      [kind |-> "off", lines |-> << <<"user-check", " ", "=", " ", "off">> >>] }

LocalUsers ==
    { [kind |-> "none", lines |-> <<>>],
      [kind |-> "valid", lines |-> << <<"user", "=", "u", ":", "p">> >>],
      [kind |-> "invalid", lines |-> << <<"user", " ", "=", " ", "u">> >>] }

DataKeys ==
    { [kind |-> "none", byte |-> 34, lines |-> <<>>],
      [kind |-> "valid", byte |-> 34, lines |-> << <<"data-key", "=", "2", "2">> >>],
      [kind |-> "valid", byte |-> 255, lines |-> << <<"data-key", " ", "=", " ", "f", "f">> >>],
      [kind |-> "valid", byte |-> 10, lines |-> << <<"data-key", "=", "0", "a">> >>],
      [kind |-> "invalid", byte |-> -1, lines |-> << <<"data-key", "=", "1", "0", "0">> >>],
      [kind |-> "invalid", byte |-> -1, lines |-> << <<"data-key", "=", "g">> >>],
      [kind |-> "invalid", byte |-> -1, lines |-> << <<"data-key", "=">> >>] }

ProxyStatuses ==
    { [kind |-> "none", lines |-> <<>>],
      [kind |-> "enable", lines |-> << <<"proxy-status", "=", "enable">> >>],
      [kind |-> "smart", lines |-> << <<"proxy-status", " ", "=", " ", "smart">> >>],
      [kind |-> "other", lines |-> << <<"proxy-status", "=", "global">> >>] }

UsersLists ==
    { [kind |-> "unreadable", readable |-> FALSE, lines |-> <<>>],
      [kind |-> "valid", readable |-> TRUE, lines |-> << <<"a", ":", "b">> >>],
      [kind |-> "invalid", readable |-> TRUE,
       lines |-> << <<"a", ":", "b">>, <<"c">> >>] }

InitInputs ==
    [ readable : {TRUE}, userCheck : UserChecks, user : LocalUsers,
      dataKey : DataKeys, proxyStatus : ProxyStatuses, usersList : UsersLists ]
    \cup
    [ readable : {FALSE}, userCheck : {uc \in UserChecks : uc.kind = "none"},
      user : {u \in LocalUsers : u.kind = "none"},
      dataKey : {k \in DataKeys : k.kind = "none"},
      proxyStatus : {ps \in ProxyStatuses : ps.kind = "none"},
      usersList : {ul \in UsersLists : ul.kind = "unreadable"} ]

\* readLines(ConfigPath): (lines, err)
readLines(input) ==
    IF ~input.readable THEN [lines |-> <<>>, err |-> ErrOpen]
    ELSE [lines |-> input.userCheck.lines \o input.user.lines \o input.dataKey.lines
                    \o input.proxyStatus.lines,
          err |-> NilErr]

InitStart ==
    /\ initPc = "Init"
    /\ initInput \in InitInputs
    /\ allConfLines = <<>>
    /\ initKeyValues = <<>>
    /\ initErr = NilErr
    /\ initRet = NilErr
    /\ ConfigKeyValues = <<>>
    /\ EnableUserCheck = FALSE
    /\ EncryptKey = 0
    /\ ProxyStatus = ""

\* Init, lines 39-60: readLines, whose error is only printed; getKeyValues into
\* a variable that ":=" declares in Init; user-check
InitRead ==
    /\ initPc = "Init"
    /\ LET r == readLines(initInput)
           kv == getKeyValues(r.lines).keyValues
       IN  /\ allConfLines' = r.lines
           /\ initErr' = r.err
           /\ initKeyValues' = kv
           /\ EnableUserCheck' =
                IF KeyUserCheck \in DOMAIN kv THEN kv[KeyUserCheck] = <<"on">> ELSE FALSE
    /\ initPc' = "importUsers"
    /\ UNCHANGED << initInput, initRet, ConfigKeyValues, EncryptKey, ProxyStatus,
                    dnsVars, cfgVars, mainVars >>

\* Init, lines 62-68: importUsers when user-check is on; its error is printed
InitImportUsers ==
    /\ initPc = "importUsers"
    /\ initErr' = IF EnableUserCheck THEN importUsers(initInput.usersList) ELSE initErr
    /\ initPc' = "user"
    /\ UNCHANGED << initInput, allConfLines, initKeyValues, initRet, ConfigKeyValues,
                    EnableUserCheck, EncryptKey, ProxyStatus, dnsVars, cfgVars, mainVars >>

\* Init, lines 70-77: the local user; the error of ParseEagleUser is printed
InitLocalUser ==
    /\ initPc = "user"
    /\ initErr' = IF KeyUser \in DOMAIN initKeyValues
                  THEN ParseEagleUser(initKeyValues[KeyUser])
                  ELSE initErr
    /\ initPc' = "data-key"
    /\ UNCHANGED << initInput, allConfLines, initKeyValues, initRet, ConfigKeyValues,
                    EnableUserCheck, EncryptKey, ProxyStatus, dnsVars, cfgVars, mainVars >>

\* Init, lines 81-91: the default key, then data-key; Init returns the error
\* of ParseUint
InitEncryptKey ==
    /\ initPc = "data-key"
    /\ IF KeyDataKey \in DOMAIN initKeyValues
       THEN LET r == InitParseDataKey(initKeyValues[KeyDataKey])
            IN  /\ initErr' = r.err
                /\ IF r.err # NilErr
                   THEN /\ EncryptKey' = DefaultEncryptKey
                        /\ initRet' = r.err
                        /\ initPc' = "returned"
                   ELSE /\ EncryptKey' = r.value % 256
                        /\ initRet' = initRet
                        /\ initPc' = "proxy-status"
       ELSE /\ EncryptKey' = DefaultEncryptKey
            /\ UNCHANGED << initErr, initRet >>
            /\ initPc' = "proxy-status"
    /\ UNCHANGED << initInput, allConfLines, initKeyValues, ConfigKeyValues,
                    EnableUserCheck, ProxyStatus, dnsVars, cfgVars, mainVars >>

\* Init, lines 93-146: the listener and the protocols, which set neither err
\* nor the variables below; proxy-status; the lists; return err
InitProxyStatus ==
    /\ initPc = "proxy-status"
    /\ ProxyStatus' = IF KeyProxyStatus \in DOMAIN initKeyValues
                      THEN InitProxyStatusSwitch(initKeyValues[KeyProxyStatus])
                      ELSE ProxyENABLE
    /\ initRet' = initErr
    /\ initPc' = "returned"
    /\ UNCHANGED << initInput, allConfLines, initKeyValues, initErr, ConfigKeyValues,
                    EnableUserCheck, EncryptKey, dnsVars, cfgVars, mainVars >>

InitInit == DnsOff /\ CfgIdle /\ InitStart /\ MainIdle

NextInit ==
    InitRead \/ InitImportUsers \/ InitLocalUser \/ InitEncryptKey \/ InitProxyStatus

SpecInit == InitInit /\ [][NextInit]_vars

\* C11 as stated: Init returns an error whenever the local user does not
\* parse, users.list fails to import while user-check is on, or data-key is no
\* hex byte.
C11_InvalidIsFatal ==
    /\ initPc = "returned"
    /\ \/ initInput.user.kind = "invalid"
       \/ initInput.userCheck.kind = "on" /\ initInput.usersList.kind # "valid"
       \/ initInput.dataKey.kind = "invalid"
    => initRet # NilErr

C18_ConfigKeyValues ==
    initPc = "returned" => ConfigKeyValues = getKeyValues(allConfLines).keyValues

\* ------------------------------------------------------------------- main

\* what Init(args) of package main may return: nil, the error that means
\* "stop, nothing failed", an error of ImportArgs, an error of ImportConfig
ErrNoNeedToContinue == "no need to continue"
ErrImportArgs == "ImportArgs error"
ErrImportConfig == "ImportConfig error"
MainInitOutcomes == {NilErr, ErrNoNeedToContinue, ErrImportArgs, ErrImportConfig}

\* os.Args[1:]
MainArgs ==
    { <<>>, <<"check">>, <<"check", "relay">>, <<"check", "relay", "conf">>,
      <<"conf">>, <<"-c", "conf">>, <<"ask", "conf">> }

\* the exit statuses mycmd.Check ends the process with
CheckExitCodes == {0, 1}

MainStart ==
    /\ mainPc = "main"
    /\ mainArgs \in MainArgs
    /\ mainErr = NilErr
    /\ service = "nil"
    /\ startPc = "none"
    /\ startErr = FALSE
    /\ notified = FALSE
    /\ sigChan = 0
    /\ interrupted = FALSE
    /\ exitCode = -1

\* the process ends with this status
Exit(code) ==
    /\ mainPc' = "exited"
    /\ exitCode' = code

\* main: no argument, the check sub-command, or the server; returning from
\* main ends the process with status 0
main ==
    /\ mainPc = "main"
    /\ IF Len(mainArgs) = 0 THEN Exit(0)
       ELSE /\ mainPc' = IF mainArgs[1] = "check" THEN "check" ELSE "core"
            /\ exitCode' = exitCode
    /\ UNCHANGED << mainArgs, mainErr, service, startPc, startErr, notified, sigChan,
                    interrupted, dnsVars, cfgVars, initVars >>

\* check: Init(args[2:]), whose slice expression panics on a single argument
\* (status 2); an error of Init is logged and check returns
check ==
    /\ mainPc = "check"
    /\ IF Len(mainArgs) < 2 THEN Exit(2) /\ mainErr' = mainErr
       ELSE \E er \in MainInitOutcomes :
              /\ mainErr' = er
              /\ IF er # NilErr THEN Exit(0)
                 ELSE mainPc' = "Check" /\ exitCode' = exitCode
    /\ UNCHANGED << mainArgs, service, startPc, startErr, notified, sigChan,
                    interrupted, dnsVars, cfgVars, initVars >>

\* mycmd.Check(args[1])
Check ==
    /\ mainPc = "Check"
    /\ \E code \in CheckExitCodes : Exit(code)
    /\ UNCHANGED << mainArgs, mainErr, service, startPc, startErr, notified, sigChan,
                    interrupted, dnsVars, cfgVars, initVars >>

\* core, lines 66-75: an error of Init is logged, unless it is "no need to
\* continue", and core returns; otherwise the service is created
core ==
    /\ mainPc = "core"
    /\ \E er \in MainInitOutcomes :
         /\ mainErr' = er
         /\ IF er # NilErr THEN Exit(0) /\ service' = service
            ELSE /\ service' = "created"
                 /\ mainPc' = "go"
                 /\ exitCode' = exitCode
    /\ UNCHANGED << mainArgs, startPc, startErr, notified, sigChan, interrupted,
                    dnsVars, cfgVars, initVars >>

\* core: go startService()
goStartService ==
    /\ mainPc = "go"
    /\ startPc' = "Start"
    /\ mainPc' = "waitSig"
    /\ UNCHANGED << mainArgs, mainErr, service, startErr, notified, sigChan,
                    interrupted, exitCode, dnsVars, cfgVars, initVars >>

\* startService: service.Start() fails to listen, and the error is logged, or
\* it listens and serves
startService ==
    /\ startPc = "Start"
    /\ exitCode = -1
    /\ \E listens \in {service = "created", FALSE} :
         IF listens
         THEN /\ service' = "listening"
              /\ startPc' = "serving"
              /\ startErr' = startErr
         ELSE /\ service' = service
              /\ startPc' = "returned"
              /\ startErr' = TRUE
    /\ UNCHANGED << mainPc, mainArgs, mainErr, notified, sigChan, interrupted,
                    exitCode, dnsVars, cfgVars, initVars >>

\* startService: service.Start() returns once the service is closed
startServiceReturn ==
    /\ startPc = "serving"
    /\ exitCode = -1
    /\ service = "closed"
    /\ startPc' = "returned"
    /\ UNCHANGED << mainPc, mainArgs, mainErr, service, startErr, notified, sigChan,
                    interrupted, exitCode, dnsVars, cfgVars, initVars >>

\* waitSig: signal.Notify(c, os.Interrupt) on a channel that buffers one signal
waitSig ==
    /\ mainPc = "waitSig"
    /\ notified' = TRUE
    /\ mainPc' = "recv"
    /\ UNCHANGED << mainArgs, mainErr, service, startPc, startErr, sigChan,
                    interrupted, exitCode, dnsVars, cfgVars, initVars >>

\* waitSig: <-c
waitSigRecv ==
    /\ mainPc = "recv"
    /\ sigChan > 0
    /\ sigChan' = sigChan - 1
    /\ mainPc' = "stopService"
    /\ UNCHANGED << mainArgs, mainErr, service, startPc, startErr, notified,
                    interrupted, exitCode, dnsVars, cfgVars, initVars >>

\* stopService: service.Close()
stopService ==
    /\ mainPc = "stopService"
    /\ service' = "closed"
    /\ mainPc' = "deferred"
    /\ UNCHANGED << mainArgs, mainErr, startPc, startErr, notified, sigChan,
                    interrupted, exitCode, dnsVars, cfgVars, initVars >>

\* core returns: the deferred service.Close(), then main returns
coreReturn ==
    /\ mainPc = "deferred"
    /\ service' = "closed"
    /\ Exit(0)
    /\ UNCHANGED << mainArgs, mainErr, startPc, startErr, notified, sigChan,
                    interrupted, dnsVars, cfgVars, initVars >>

\* an interrupt signal is sent to the process: before signal.Notify it ends
\* the process, which a shell reports as status 130; after it the signal goes
\* to the channel, and is dropped when the channel is full
Interrupt ==
    /\ mainPc # "exited"
    /\ interrupted' = TRUE
    /\ IF notified
       THEN /\ sigChan' = 1
            /\ UNCHANGED << mainPc, exitCode >>
       ELSE /\ sigChan' = sigChan
            /\ Exit(130)
    /\ UNCHANGED << mainArgs, mainErr, service, startPc, startErr, notified,
                    dnsVars, cfgVars, initVars >>

InitMain == DnsOff /\ CfgIdle /\ InitIdle /\ MainStart

NextMain ==
    \/ main
    \/ check
    \/ Check
    \/ core
    \/ goStartService
    \/ startService
    \/ startServiceReturn
    \/ waitSig
    \/ waitSigRecv
    \/ stopService
    \/ coreReturn
    \/ Interrupt

SpecMain == InitMain /\ [][NextMain]_vars

\* the process was started as the server
ServerRun == Len(mainArgs) > 0 /\ mainArgs[1] # "check"

\* C13 as stated: a server run ends with status 1 when the initialisation of
\* the configuration failed, 2 when listening failed, 130 when an interrupt
\* ended it, and 0 otherwise.
C13_ExitCodes ==
    mainPc = "exited" /\ ServerRun
    => exitCode = IF mainErr \notin {NilErr, ErrNoNeedToContinue} THEN 1
                  ELSE IF startErr THEN 2
                  ELSE IF interrupted THEN 130
                  ELSE 0

\* ------------------------------------------------------------- properties

\* whether the call of goroutine p has done this
Did(p, what) == \E i \in 1..Len(trace[p]) : trace[p][i] = what

\* when it did it (0: never)
When(p, what) ==
    IF Did(p, what) THEN CHOOSE i \in 1..Len(trace[p]) : trace[p][i] = what ELSE 0

InHosts(domain) == domain \in DOMAIN HostsCache

\* the call has got no cache node and invoked no resolver
NoNetworkDNS(p) ==
    /\ nodeL[p] = NoNode
    /\ nodeR[p] = NoNode
    /\ \A what \in {"DNSResolver", "waitLocal", "sendQuery", "waitRemote", "LOCATION"} :
         ~Did(p, what)

\* the goroutine has not gone near the local cache or resolver
NoLocalPath(p) ==
    /\ nodeL[p] = NoNode
    /\ pc[p] \notin {"getCacheNodeOfLocal", "lockLocal", "getLocal", "DNSResolver",
                     "waitLocal", "LOCATION", "WriteLeftStr"}
    /\ ~Did(p, "DNSResolver") /\ ~Did(p, "waitLocal")

\* the goroutine has not gone near the remote cache or the relay
NoRemotePath(p) ==
    /\ nodeR[p] = NoNode
    /\ pc[p] \notin {"getCacheNodeOfRemote", "lockRemote", "getRemote", "sendQuery",
                     "waitRemote"}
    /\ ~Did(p, "sendQuery") /\ ~Did(p, "waitRemote")

\* C1: single flight. A node's resolver is invoked at most once, at most one
\* resolver call per cache and domain is in flight, and the callers that
\* returned from one node all got the same IP or all got an error.
C1_SingleFlight ==
    /\ \A i \in NodeIds :
         /\ nodes[i].calls <= 1
         /\ Cardinality(nodes[i].results) <= 1
    /\ \A d \in Domains :
         /\ Cardinality({p \in Procs : pc[p] = "DNSResolver" /\ e[p].Domain = d}) <= 1
         /\ Cardinality({p \in Procs : pc[p] = "sendQuery" /\ RemoteDomain(p) = d}) <= 1

\* two callers returned from the same local node, one of them after waiting
\* for the other's resolution, with the same IP
C1_Witness ==
    /\ pc[1] = "done" /\ pc[2] = "done"
    /\ nodeL[1] # NoNode /\ nodeL[1] = nodeL[2]
    /\ Did(1, "DNSResolver") /\ Did(2, "waitLocal")
    /\ err[1] = NilErr /\ err[2] = NilErr
    /\ e[1].IP = "1.1.1.2" /\ e[2].IP = "1.1.1.2"

\* C2 as stated: a request for a domain of the hosts overlay, through either
\* entry point, never gets to a cache or a resolver.
C2_Original ==
    \A p \in Procs : op[p] # "none" /\ InHosts(e[p].Domain) => NoNetworkDNS(p)

\* C2 as amended: Send for a domain of the hosts overlay never gets to a cache
\* or a resolver, whatever the proxy status.
C2_HostsPrecedence ==
    \A p \in Procs : op[p] = "Send" /\ InHosts(e[p].Domain) => NoNetworkDNS(p)

\* Send answered from the hosts overlay under an invalid proxy status
C2_Witness ==
    \E p \in Procs :
        /\ proxyStatus = ProxyINVALID
        /\ op[p] = "Send" /\ pc[p] = "done"
        /\ e[p].Domain = DomH /\ e[p].IP = "9.9.9.9" /\ err[p] = NilErr

\* C3: Send for a domain the hosts overlay maps to "::" returns
\* ErrADHostsFound, leaves the request's IP unset and never gets to the
\* switch on the proxy status.
C3_AdBlockTerminal ==
    \A p \in Procs :
        op[p] = "Send" /\ InHosts(e[p].Domain) /\ HostsCache[e[p].Domain] = "::"
        => /\ pc[p] = "done"
           /\ err[p] = ErrADHostsFound
           /\ e[p].IP = ""
           /\ ~Did(p, "setIP") /\ ~Did(p, "switch")
           /\ NoNetworkDNS(p)

\* Send refused an ad-blocked domain
C3_Witness ==
    \E p \in Procs :
        /\ op[p] = "Send" /\ pc[p] = "done"
        /\ e[p].Domain = DomX /\ err[p] = ErrADHostsFound

\* the nodes of one cache
InCache(i) == i \in CacheNodes(dnsLocalCache) \cup CacheNodes(dnsRemoteCache)

\* the goroutine that is resolving for node i
Creator(i) ==
    {p \in Procs : \/ pc[p] = "DNSResolver" /\ nodeL[p] = i
                   \/ pc[p] = "sendQuery" /\ nodeR[p] = i}

\* C4: a failed resolution does not poison the cache. A node whose creator
\* returned an error is failed and in no cache, so the next Get of the domain
\* creates a node; a node in a cache is either pending, with its creator's
\* resolver call in flight, or holds the IP its creator returned.
C4_FailedNotCached ==
    \A i \in NodeIds :
        /\ "<error>" \in nodes[i].results => nodes[i].state = "FAILED"
        /\ nodes[i].state = "FAILED" => ~InCache(i)
        /\ InCache(i) /\ nodes[i].state = "PENDING" => Creator(i) # {}
        /\ nodes[i].state = "READY" => nodes[i].results = {nodes[i].value}

\* a goroutine still holds the node whose resolution failed, while the local
\* cache holds a later node of the same domain with the IP of a new resolution
C4_Witness ==
    \E p \in Procs :
        /\ pc[p] = "done" /\ e[p].Domain = DomA
        /\ nodeL[p] # NoNode /\ nodes[nodeL[p]].state = "FAILED"
        /\ dnsLocalCache # NilCache
        /\ dnsLocalCache[DomA] \notin {NoNode, nodeL[p]}
        /\ nodes[dnsLocalCache[DomA]].state = "READY"
        /\ nodes[dnsLocalCache[DomA]].calls = 1

\* C5 as stated: a resolution that returns no error leaves a parseable IP in
\* the request.
C5_SuccessHasIP ==
    \A p \in Procs :
        pc[p] = "done" /\ err[p] = NilErr => ParseIP(e[p].IP) # NoIP

\* what a finished call got from its local / remote node
LocalIP(p) ==
    IF nodes[nodeL[p]].state = "READY" THEN nodes[nodeL[p]].value ELSE ""
RemoteOK(p) == nodes[nodeR[p]].state = "READY"

\* Send is in the branch of an uncertain domain
Uncertain(p) ==
    /\ op[p] = "Send"
    /\ ~InHosts(e[p].Domain)
    /\ proxyStatus = ProxySMART
    /\ e[p].DomainType = UncertainDomain

\* C6: for an uncertain domain in smart mode the local path comes first; when
\* the location needs the proxy the remote path follows it and the IP
\* returned is the remote path's, otherwise the IP returned is the local
\* path's and the remote path is not used.
C6_UncertainDomain ==
    \A p \in Procs :
        Uncertain(p) /\ pc[p] = "done"
        => /\ nodeL[p] # NoNode
           /\ Did(p, "LOCATION")
           /\ 0 < When(p, "DNSResolver") + When(p, "waitLocal")
           /\ When(p, "DNSResolver") + When(p, "waitLocal") < When(p, "LOCATION")
           /\ IF checkProxyByLocation(e[p].Location)
              THEN /\ nodeR[p] # NoNode
                   /\ When(p, "LOCATION") < When(p, "sendQuery") + When(p, "waitRemote")
                   /\ e[p].IP = ne[p].IP
                   /\ RemoteOK(p) <=> err[p] = NilErr
                   /\ RemoteOK(p) => e[p].IP = nodes[nodeR[p]].value
                   /\ e[p].IP \notin {"1.1.1.1", "1.1.1.2"}
              ELSE /\ NoRemotePath(p)
                   /\ e[p].IP = LocalIP(p)

\* an uncertain domain resolved locally, located where the proxy is needed,
\* and answered with the relay's IP
C6_Witness ==
    \E p \in Procs :
        /\ Uncertain(p) /\ pc[p] = "done"
        /\ e[p].Location = "US"
        /\ LocalIP(p) = "1.1.1.1"
        /\ e[p].IP = "2.2.2.2" /\ err[p] = NilErr

\* C7: for a domain with no hosts entry, Send under ENABLE uses the remote
\* path only, under SMART a direct domain uses the local path only and a proxy
\* domain the remote path only; once returned, it has used that path.
C7_PathSelection ==
    \A p \in Procs :
        op[p] = "Send" /\ ~InHosts(e[p].Domain)
        => /\ proxyStatus = ProxyENABLE
              => NoLocalPath(p) /\ (pc[p] = "done" => nodeR[p] # NoNode)
           /\ proxyStatus = ProxySMART /\ e[p].DomainType = DirectDomain
              => NoRemotePath(p) /\ (pc[p] = "done" => nodeL[p] # NoNode)
           /\ proxyStatus = ProxySMART /\ e[p].DomainType = ProxyDomain
              => NoLocalPath(p) /\ (pc[p] = "done" => nodeR[p] # NoNode)

\* under ENABLE a direct domain was resolved by the relay
C7_Witness ==
    \E p \in Procs :
        /\ proxyStatus = ProxyENABLE
        /\ op[p] = "Send" /\ pc[p] = "done"
        /\ e[p].Domain = DomA /\ e[p].DomainType = DirectDomain
        /\ Did(p, "sendQuery") /\ e[p].IP = "2.2.2.2" /\ err[p] = NilErr

\* C8: on the remote path a reply that is no IP literal is never published:
\* its creator returns "invalid reply" and its node is failed and out of the
\* cache, a caller that waited on a failed node returns an error and not the
\* reply, and a published remote node holds an IP literal.
C8_InvalidReply ==
    /\ \A p \in Procs :
         /\ pc[p] = "done" /\ Did(p, "sendQuery") /\ ParseIP(e[p].IP) = NoIP
            => /\ err[p] = ErrInvalidReply
               /\ nodes[nodeR[p]].state = "FAILED"
               /\ ~InCache(nodeR[p])
         /\ pc[p] = "done" /\ Did(p, "waitRemote") /\ nodes[nodeR[p]].state = "FAILED"
            => err[p] # NilErr /\ e[p].IP = ""
    /\ \A i \in NodeIds :
         i[1] = "remote" /\ nodes[i].state = "READY" => ParseIP(nodes[i].value) # NoIP

\* the creator got a reply that is no IP, and the caller that waited on its
\* node got an error
C8_Witness ==
    /\ pc[1] = "done" /\ pc[2] = "done"
    /\ nodeR[1] # NoNode /\ nodeR[1] = nodeR[2]
    /\ Did(1, "sendQuery") /\ e[1].IP = "not-an-ip" /\ err[1] = ErrInvalidReply
    /\ Did(2, "waitRemote") /\ err[2] = ErrNode

\* C9: Handle uses the local path only. It writes nothing before it is done;
\* when it returns no error it has written the IP of its node, once; when the
\* request was too short or the resolution failed it returns that error and
\* has written nothing.
C9_Handle ==
    \A p \in Procs :
        op[p] = "Handle"
        => /\ NoRemotePath(p)
           /\ pc[p] # "LOCATION" /\ ~Did(p, "LOCATION")
           /\ pc[p] # "done" => tunnel[p] = <<>>
           /\ pc[p] = "done"
              => /\ err[p] = NilErr
                    => /\ tunnel[p] = <<e[p].IP>>
                       /\ nodes[nodeL[p]].state = "READY"
                       /\ e[p].IP = nodes[nodeL[p]].value
                 /\ nodeL[p] = NoNode => err[p] = ErrTooShort /\ tunnel[p] = <<>>
                 /\ nodeL[p] # NoNode /\ nodes[nodeL[p]].state = "FAILED"
                    => err[p] \in {ErrResolver, ErrNode} /\ tunnel[p] = <<>>

\* Handle wrote the IP it resolved for "DNS a"
C9_Witness ==
    \E p \in Procs :
        /\ op[p] = "Handle" /\ pc[p] = "done"
        /\ e[p].Domain = DomA /\ Did(p, "DNSResolver")
        /\ tunnel[p] = <<"1.1.1.1">> /\ err[p] = NilErr

\* the entries Update and Destroy of a call's trace
NodeOps == {"Update", "Destroy"}
\* the entries that say Get reported a new node: the caller is its creator
CreatorSteps == {"DNSResolver", "sendQuery"}

\* C14: only the creator of a node calls Update or Destroy on it, one of them
\* and once; a caller that found the node only waits. A pending node has had
\* no such call and a published or failed node exactly one, so no node leaves
\* a terminal state.
C14_CreatorOnly ==
    /\ \A i \in NodeIds :
         /\ nodes[i].ops <= 1
         /\ nodes[i].state \in {"FREE", "PENDING"} => nodes[i].ops = 0
         /\ nodes[i].state \in {"READY", "FAILED"} => nodes[i].ops = 1
    /\ \A p \in Procs :
         /\ \A k \in 1..Len(trace[p]) :
              /\ trace[p][k] \in NodeOps
                 => k > 1 /\ trace[p][k - 1] \in CreatorSteps
              /\ trace[p][k] \in CreatorSteps /\ (k < Len(trace[p]) \/ pc[p] = "done")
                 => k < Len(trace[p]) /\ trace[p][k + 1] \in NodeOps
         /\ pc[p] = "DNSResolver" => nodes[nodeL[p]].state = "PENDING"
         /\ pc[p] = "sendQuery" => nodes[nodeR[p]].state = "PENDING"
         /\ pc[p] = "waitLocal" => trace[p][Len(trace[p])] = "waitLocal"
         /\ pc[p] = "waitRemote" => trace[p][Len(trace[p])] = "waitRemote"

\* the creator of a remote node destroyed it, once, and the caller that found
\* the node returned from its wait having called neither Update nor Destroy
C14_Witness ==
    /\ pc[1] = "done" /\ pc[2] = "done"
    /\ nodeR[1] # NoNode /\ nodeR[1] = nodeR[2]
    /\ Did(1, "sendQuery") /\ Did(1, "Destroy") /\ ~Did(1, "Update")
    /\ Did(2, "waitRemote") /\ ~Did(2, "Destroy") /\ ~Did(2, "Update")
    /\ nodes[nodeR[1]].ops = 1 /\ nodes[nodeR[1]].state = "FAILED"

IsPrefix(s, t) == Len(s) <= Len(t) /\ SubSeq(t, 1, Len(s)) = s

\* what a call of resolvDNSByLocation does, in order, from its entry on
LocalSteps == {<<"DNSResolver", "Update">>, <<"DNSResolver", "Destroy">>, <<"waitLocal">>}
RemoteSteps == {<<"sendQuery", "Update">>, <<"sendQuery", "Destroy">>, <<"waitRemote">>}
LocationOrders ==
    {<<"look4Hosts", "switch">> \o l \o <<"LOCATION", "checkProxyByLocation">> \o r :
        l \in LocalSteps, r \in RemoteSteps}

\* the call has started the remote resolution
RemoteStarted(p) ==
    \/ pc[p] \in {"getCacheNodeOfRemote", "lockRemote", "getRemote", "sendQuery",
                  "waitRemote"}
    \/ nodeR[p] # NoNode

\* C16: in the branch of an uncertain domain the local resolution completes
\* before the LOCATION query, the query before the policy check, which is
\* evaluated on the location the query left in the request, and the remote
\* resolution starts only after the check returned true; the LOCATION query
\* is sent whether or not the local resolution failed.
C16_LocationOrder ==
    \A p \in Procs :
        Uncertain(p)
        => /\ \E o \in LocationOrders : IsPrefix(trace[p], o)
           /\ pc[p] = "LOCATION" \/ Did(p, "LOCATION")
              => /\ nodeL[p] # NoNode
                 /\ nodes[nodeL[p]].state \in {"READY", "FAILED"}
           /\ pc[p] = "LOCATION" => ~Did(p, "LOCATION") /\ ~RemoteStarted(p)
           /\ Did(p, "LOCATION") <=> Did(p, "checkProxyByLocation")
           /\ ~Did(p, "LOCATION") => e[p].Location = "" /\ ~RemoteStarted(p)
           /\ RemoteStarted(p) => checkProxyByLocation(e[p].Location)
           /\ Did(p, "checkProxyByLocation") /\ ~checkProxyByLocation(e[p].Location)
              => pc[p] = "done"
           /\ Did(p, "checkProxyByLocation") /\ checkProxyByLocation(e[p].Location)
              => RemoteStarted(p) \/ pc[p] = "done"
           /\ pc[p] = "done" => Did(p, "LOCATION")

\* the local resolution of an uncertain domain failed, the LOCATION query was
\* sent all the same, and the relay resolved the domain
C16_Witness ==
    \E p \in Procs :
        /\ Uncertain(p) /\ pc[p] = "done"
        /\ Did(p, "DNSResolver") /\ nodes[nodeL[p]].state = "FAILED"
        /\ Did(p, "LOCATION") /\ e[p].Location = "US"
        /\ Did(p, "sendQuery") /\ e[p].IP = "2.2.2.2" /\ err[p] = NilErr

\* C17: with no hosts entry and a proxy status that is neither ENABLE nor
\* SMART, Send returns ErrInvalidProxyStatus at once: no cache node, no
\* resolver, no LOCATION query, the request's IP as it was; the remote cache,
\* which only Send uses, is never created.
C17_InvalidProxyStatus ==
    /\ \A p \in Procs :
         /\ op[p] = "Send"
         /\ ~InHosts(e[p].Domain)
         /\ proxyStatus \notin {ProxyENABLE, ProxySMART}
         => /\ pc[p] = "done"
            /\ err[p] = ErrInvalidProxyStatus
            /\ trace[p] = <<"look4Hosts", "switch">>
            /\ NoNetworkDNS(p)
            /\ e[p].IP = ""
    /\ proxyStatus \notin {ProxyENABLE, ProxySMART}
       => /\ dnsRemoteCache = NilCache
          /\ \A i \in NodeIds : i[1] = "remote" => nodes[i] = FreeNode

\* Send refused "a" for the proxy status while the local cache, filled by
\* Handle, holds an IP for "a"
C17_Witness ==
    \E p \in Procs :
        /\ proxyStatus = ProxyINVALID
        /\ op[p] = "Send" /\ pc[p] = "done"
        /\ e[p].Domain = DomA /\ e[p].IP = "" /\ err[p] = ErrInvalidProxyStatus
        /\ dnsLocalCache # NilCache
        /\ dnsLocalCache[DomA] # NoNode
        /\ nodes[dnsLocalCache[DomA]].state = "READY"

\* a step keeps the instance of a cache: the field, once set, stays set, and a
\* node leaves the cache only when its creator destroys it
KeepsInstance(cache, cacheNext) ==
    cache # NilCache
    => /\ cacheNext # NilCache
       /\ \A d \in Domains :
            cache[d] # NoNode /\ cacheNext[d] # cache[d]
            => cacheNext[d] = NoNode /\ nodes'[cache[d]].state = "FAILED"

\* C19: the lazy creation makes one instance of each cache. Once a cache
\* field is set no step replaces the instance, every Get runs on a cache that
\* exists, and no two callers are creators for one domain of one cache at a
\* time, whatever the first callers saw outside the lock.
C19_Step ==
    /\ KeepsInstance(dnsLocalCache, dnsLocalCache')
    /\ KeepsInstance(dnsRemoteCache, dnsRemoteCache')
    /\ \A p \in Procs :
         /\ pc'[p] = "getLocal" => dnsLocalCache' # NilCache
         /\ pc'[p] = "getRemote" => dnsRemoteCache' # NilCache
         /\ pc'[p] = "DNSResolver" => dnsLocalCache'[e'[p].Domain] = nodeL'[p]
         /\ pc'[p] = "sendQuery" => dnsRemoteCache'[RemoteDomain(p)'] = nodeR'[p]

C19_LazyCreation == [][C19_Step]_vars

\* a first caller created the local cache and is resolving "a"; the other,
\* which saw no cache, is about to take the lock
C19_Witness ==
    /\ pc[1] = "DNSResolver" /\ e[1].Domain = DomA
    /\ pc[2] = "lockLocal" /\ e[2].Domain = DomA
    /\ dnsLocalCache # NilCache

\* the IPs the local resolver / the relay can give
LocalIPs == {o.ip : o \in {r \in ResolverOutcomes : r.err = NilErr}}
RemoteIPs == {o.ip : o \in {r \in QueryOutcomes : _resolvDNSByProxy(r).err = NilErr}}

\* the nodes of a cache are nodes made for it, under their domain
OwnNodes(cache, path) ==
    cache # NilCache
    => \A d \in Domains : cache[d] # NoNode => cache[d][1] = path /\ cache[d][2] = d

C20_Inv ==
    /\ OwnNodes(dnsLocalCache, "local")
    /\ OwnNodes(dnsRemoteCache, "remote")
    /\ \A i \in NodeIds :
         nodes[i].state = "READY"
         => nodes[i].value \in (IF i[1] = "local" THEN LocalIPs ELSE RemoteIPs)
    /\ \A p \in Procs :
         /\ nodeL[p] # NoNode => nodeL[p][1] = "local" /\ nodeL[p][2] = e[p].Domain
         /\ nodeR[p] # NoNode => nodeR[p][1] = "remote" /\ nodeR[p][2] = RemoteDomain(p)
         /\ pc[p] = "done" /\ err[p] = NilErr /\ nodeR[p] # NoNode
            => e[p].IP = nodes[nodeR[p]].value /\ e[p].IP \in RemoteIPs
         /\ pc[p] = "done" /\ nodeR[p] = NoNode /\ nodeL[p] # NoNode
            /\ nodes[nodeL[p]].state = "READY"
            => e[p].IP = nodes[nodeL[p]].value /\ e[p].IP \in LocalIPs
         /\ pc[p] = "done" /\ nodeR[p] # NoNode /\ nodeL[p] # NoNode
            /\ nodes[nodeL[p]].state = "READY"
            => /\ dnsLocalCache[e[p].Domain] = nodeL[p]
               /\ nodes[nodeL[p]].value \in LocalIPs

\* a step changes a cache: its field, or a node it holds
Changes(cache, cacheNext) ==
    \/ cacheNext # cache
    \/ \E i \in CacheNodes(cache) : nodes'[i] # nodes[i]

C20_Step ==
    /\ Changes(dnsRemoteCache, dnsRemoteCache') => ~Changes(dnsLocalCache, dnsLocalCache')
    /\ Changes(dnsLocalCache, dnsLocalCache') => ~Changes(dnsRemoteCache, dnsRemoteCache')

\* C20: the two caches are independent. Each holds only nodes made for it, a
\* caller of the remote path gets the value of a remote node and a caller of
\* the local path that of a local node, and a step that changes one cache
\* (a Get, an Update, a Destroy with its eviction) leaves the other cache and
\* its nodes as they were; after the fallback of an uncertain domain the local
\* cache still holds the local IP while the caller has the relay's.
C20_Independent == []C20_Inv /\ [][C20_Step]_vars

\* an uncertain domain fell back to the relay, whose resolution failed and was
\* evicted, while the local cache keeps the IP of the local resolution
C20_Witness ==
    \E p \in Procs :
        /\ Uncertain(p) /\ pc[p] = "done"
        /\ nodes[nodeL[p]].state = "READY"
        /\ dnsLocalCache[e[p].Domain] = nodeL[p]
        /\ nodeR[p] # NoNode /\ nodes[nodeR[p]].state = "FAILED"
        /\ dnsRemoteCache[e[p].Domain] = NoNode

\* C15: once the creator of a node is back from its resolver call, every
\* caller blocked in Wait on that node eventually returns from it.
C15_WaiterLiveness ==
    \A p \in Procs :
        /\ (pc[p] = "waitLocal" /\ Creator(nodeL[p]) = {}) ~> (pc[p] # "waitLocal")
        /\ (pc[p] = "waitRemote" /\ Creator(nodeR[p]) = {}) ~> (pc[p] # "waitRemote")

\* a caller is blocked in Wait on a remote node whose creator has returned
\* with an error
C15_Witness ==
    /\ pc[1] = "done" /\ Did(1, "sendQuery") /\ err[1] = ErrInvalidReply
    /\ pc[2] = "waitRemote" /\ nodeR[2] = nodeR[1]

====
